---- MODULE Spec2Model ----
(***************************************************************************)
(* Model of the DMI Weather integration: the API client                    *)
(* (custom_components/dmi/api.py) and the refresh coordinator              *)
(* (custom_components/dmi/coordinator.py).                                 *)
(*                                                                         *)
(* Python values are modelled as follows.                                  *)
(*   - A nullable value is None (the empty tuple) or Some(x) (a 1-tuple).  *)
(*   - A dict / JSON object is a function whose DOMAIN is its key set;     *)
(*     d.get(k, default) is Get(d, k, default).                            *)
(*   - An exception is a record [cls, status]; `except C` matches by the   *)
(*     Python class hierarchy (IsInstance).                                *)
(*   - An awaited call yields Return(v) or Raise(exc).                     *)
(*   - Timestamps are naturals standing for instants; temperatures are     *)
(*     integers in hundredths of a degree.                                 *)
(***************************************************************************)
EXTENDS Integers, Sequences, FiniteSets, TLC

(* ------------------------------ bounds --------------------------------- *)

\* longest observation / station feed drawn as input
MaxFeatures == 2

\* longest forecast time axis drawn as input
MaxSteps == 2

\* at most this many parameter ranges are present in a drawn forecast body
MaxRanges == 1

\* the wall clock is not advanced past this instant
MaxNow == 31

\* the longest station feed a config flow is given
MaxFlowStations == 2

\* the longest hourly list of a Snapshot the entities are given
MaxHourly == 2

(* --------------------------- Python values ----------------------------- *)

None == << >>

Some(x) == << x >>

EmptyDict == [k \in {} |-> None]

Get(d, k, default) == IF k \in DOMAIN d THEN d[k] ELSE default

\* `if x:` for an optional string
Truthy(x) == x # None /\ x[1] # ""

Return(v) == [ok |-> TRUE, value |-> v]

Raise(e) == [ok |-> FALSE, exc |-> e]

Exc(cls, status) == [cls |-> cls, status |-> status]

\* direct base class of each exception class used by the integration
BaseOf(cls) ==
    CASE cls = "ContentTypeError"    -> "ClientResponseError"
      [] cls = "ClientResponseError" -> "ClientError"
      [] cls = "ClientError"         -> "Exception"
      [] cls = "JSONDecodeError"     -> "ValueError"
      [] cls = "ValueError"          -> "Exception"
      [] cls = "AttributeError"      -> "Exception"
      [] cls = "TimeoutError"        -> "Exception"
      [] cls = "CannotConnect"       -> "Exception"
      [] cls = "RateLimitExceeded"   -> "Exception"
      [] cls = "UpdateFailed"        -> "Exception"
      [] cls = "TypeError"           -> "Exception"
      [] cls = "OverflowError"       -> "ArithmeticError"
      [] cls = "ArithmeticError"     -> "Exception"
      [] cls = "Exception"           -> "BaseException"
      [] cls = "CancelledError"      -> "BaseException"
      [] OTHER                       -> "BaseException"

RECURSIVE IsSubclass(_, _)
IsSubclass(cls, base) ==
    IF cls = base THEN TRUE
    ELSE IF cls = "BaseException" THEN FALSE
    ELSE IsSubclass(BaseOf(cls), base)

IsInstance(e, base) == IsSubclass(e.cls, base)

Put(d, k, v) == [x \in (DOMAIN d) \cup {k} |-> IF x = k THEN v ELSE d[x]]

\* every sequence over S of length at most n
SeqsUpTo(S, n) == UNION {[1..m -> S] : m \in 0..n}

(* ----------------------- what the HTTP session does --------------------- *)
(* One GET either raises while the request is made (at = "get") or yields  *)
(* a response with a status whose json() returns a body or raises.         *)

\* exceptions aiohttp's session.get can raise (a session configured with
\* raise_for_status raises ClientResponseError itself)
GetRaises ==
    { Exc("ClientResponseError", 429), Exc("ClientResponseError", 500),
      Exc("ClientError", 0), Exc("TimeoutError", 0), Exc("Exception", 0) }

\* exceptions response.json() can raise on a 2xx response
JsonRaises == { Exc("ContentTypeError", 200), Exc("JSONDecodeError", 0) }

ErrorStatuses == {404, 429, 500}

HttpOutcomes(Bodies) ==
    { [at |-> "get", exc |-> e] : e \in GetRaises }
    \cup { [at |-> "response", status |-> s, json |-> Raise(Exc("ContentTypeError", s))]
             : s \in ErrorStatuses }
    \cup { [at |-> "response", status |-> 200, json |-> Raise(e)] : e \in JsonRaises }
    \cup { [at |-> "response", status |-> 200, json |-> Return(b)] : b \in Bodies }

(* ------------------------------ api.py --------------------------------- *)

\* response.raise_for_status(): aiohttp raises for a status of 400 or more
raise_for_status(status) ==
    IF status >= 400 THEN Raise(Exc("ClientResponseError", status)) ELSE Return(None)

\* the `try` block of _request (api.py 49-53)
request_try(http) ==
    IF http.at = "get" THEN Raise(http.exc)
    ELSE IF http.status = 429 THEN Raise(Exc("RateLimitExceeded", 0))
    ELSE IF ~raise_for_status(http.status).ok THEN raise_for_status(http.status)
    ELSE http.json

\* _request whose first except clause does not look at err.status
request_no_429_in_except(http) ==
    LET r == request_try(http) IN
    IF r.ok THEN r
    ELSE IF IsInstance(r.exc, "ClientError") THEN Raise(Exc("CannotConnect", 0))
    ELSE r

\* DMIApiClient._request: the try block followed by its two except clauses
request(http) ==
    LET r == request_try(http) IN
    IF r.ok THEN r
    ELSE IF IsInstance(r.exc, "ClientResponseError")
         THEN IF r.exc.status = 429
              THEN Raise(Exc("RateLimitExceeded", 0))
              ELSE Raise(Exc("CannotConnect", 0))
    ELSE IF IsInstance(r.exc, "ClientError")
         THEN Raise(Exc("CannotConnect", 0))
    ELSE r

\* the loop of get_observations (api.py 115-125): a fold in feed order
RECURSIVE observations_fold(_)
observations_fold(features) ==
    IF Len(features) = 0 THEN EmptyDict
    ELSE LET observations == observations_fold(SubSeq(features, 1, Len(features) - 1))
             feature  == features[Len(features)]
             props    == Get(feature, "properties", EmptyDict)
             param_id == Get(props, "parameterId", None)
         IN  IF Truthy(param_id)
             THEN Put(observations, param_id[1],
                      [value    |-> Get(props, "value", None),
                       observed |-> Get(props, "observed", None)])
             ELSE observations

\* get_observations folding the feed from its end, so that the first
\* feature of a parameterId wins
get_observations_first_wins(http) ==
    LET data == request(http) IN
    IF ~data.ok THEN data
    ELSE LET features == Get(data.value, "features", << >>)
         IN  Return(observations_fold([i \in 1..Len(features) |->
                                          features[Len(features) + 1 - i]]))

\* DMIApiClient.get_observations
get_observations(http) ==
    LET data == request(http) IN
    IF ~data.ok THEN data
    ELSE Return(observations_fold(Get(data.value, "features", << >>)))

\* one iteration of the loop of get_stations (api.py 81-92); a null geometry
\* has no .get and raises AttributeError
station_of(feature) ==
    LET props    == Get(feature, "properties", EmptyDict)
        geometry == Get(feature, "geometry", Some(EmptyDict))
    IN  IF geometry = None THEN Raise(Exc("AttributeError", 0))
        ELSE LET coordinates == Get(geometry[1], "coordinates", << None, None >>)
             IN  Return([stationId   |-> Get(props, "stationId", None),
                         name        |-> Get(props, "name", None),
                         longitude   |-> IF Len(coordinates) > 0 THEN coordinates[1] ELSE None,
                         latitude    |-> IF Len(coordinates) > 1 THEN coordinates[2] ELSE None,
                         type        |-> Get(props, "type", None),
                         parameterId |-> Get(props, "parameterId", << >>)])

\* the loop of get_stations (api.py 79-96)
RECURSIVE stations_fold(_)
stations_fold(features) ==
    IF Len(features) = 0 THEN Return(<< >>)
    ELSE LET stations == stations_fold(SubSeq(features, 1, Len(features) - 1))
             station  == station_of(features[Len(features)])
         IN  IF ~stations.ok THEN stations
             ELSE IF ~station.ok THEN station
             ELSE IF Truthy(station.value.stationId)
                  THEN Return(Append(stations.value, station.value))
                  ELSE stations

\* DMIApiClient.get_stations
get_stations(http) ==
    LET data == request(http) IN
    IF ~data.ok THEN data
    ELSE stations_fold(Get(data.value, "features", << >>))

\* Kelvin to Celsius, in hundredths of a degree (api.py 183)
KelvinOffset == 27315

\* the copy with the index test off by one: the last value is never copied
copy_value_skips_last(entry, field, values, i, offset) ==
    IF i < Len(values) /\ values[i] # None
    THEN Put(entry, field, values[i][1] - offset)
    ELSE entry

\* `if i < len(values) and values[i] is not None: entry[field] = ...`
\* (api.py 181-198); i counts from 1 here
copy_value(entry, field, values, i, offset) ==
    IF i <= Len(values) /\ values[i] # None
    THEN Put(entry, field, values[i][1] - offset)
    ELSE entry

range_values(ranges, name) == Get(Get(ranges, name, EmptyDict), "values", << >>)

\* the loop body with the Kelvin conversion applied to every parameter
forecast_entry_kelvin_everywhere(ranges, time_value, i) ==
    LET e0 == [k \in {"datetime"} |-> time_value]
        e1 == copy_value(e0, "temperature", range_values(ranges, "temperature-2m"), i, KelvinOffset)
        e2 == copy_value(e1, "wind_speed", range_values(ranges, "wind-speed-10m"), i, KelvinOffset)
        e3 == copy_value(e2, "wind_dir", range_values(ranges, "wind-dir-10m"), i, KelvinOffset)
        e4 == copy_value(e3, "humidity", range_values(ranges, "relative-humidity"), i, KelvinOffset)
        e5 == copy_value(e4, "precipitation", range_values(ranges, "total-precipitation"), i, KelvinOffset)
    IN  copy_value(e5, "cloud_cover", range_values(ranges, "cloud-cover"), i, KelvinOffset)

\* the body of the loop of get_forecast (api.py 176-200)
forecast_entry(ranges, time_value, i) ==
    LET e0 == [k \in {"datetime"} |-> time_value]
        e1 == copy_value(e0, "temperature", range_values(ranges, "temperature-2m"), i, KelvinOffset)
        e2 == copy_value(e1, "wind_speed", range_values(ranges, "wind-speed-10m"), i, 0)
        e3 == copy_value(e2, "wind_dir", range_values(ranges, "wind-dir-10m"), i, 0)
        e4 == copy_value(e3, "humidity", range_values(ranges, "relative-humidity"), i, 0)
        e5 == copy_value(e4, "precipitation", range_values(ranges, "total-precipitation"), i, 0)
    IN  copy_value(e5, "cloud_cover", range_values(ranges, "cloud-cover"), i, 0)

\* DMIApiClient.get_forecast
get_forecast(http) ==
    LET data == request(http) IN
    IF ~data.ok THEN data
    ELSE LET ranges      == Get(data.value, "ranges", EmptyDict)
             domain      == Get(data.value, "domain", EmptyDict)
             axes        == Get(domain, "axes", EmptyDict)
             time_axis   == Get(axes, "t", EmptyDict)
             time_values == Get(time_axis, "values", << >>)
         IN  Return([hourly |-> [i \in 1..Len(time_values) |->
                                    forecast_entry(ranges, time_values[i], i)]])

\* test_connection without its try/except
test_connection_unguarded(http) ==
    LET r == request(http) IN
    IF r.ok THEN Return(TRUE) ELSE r

\* DMIApiClient.test_connection: `except Exception` re-raises as CannotConnect
test_connection(http) ==
    LET r == request(http) IN
    IF r.ok THEN Return(TRUE)
    ELSE IF IsInstance(r.exc, "Exception") THEN Raise(Exc("CannotConnect", 0))
    ELSE r

(* --------------------------- drawn inputs ------------------------------ *)

ParamIds == {"temp_dry", "humidity"}

\* (value in tenths, observed instant) pairs a feed can report
Readings == { << 140, 11 >>, << 155, 12 >> }

ObservationFeatures ==
    { [properties |-> [parameterId |-> pid, value |-> Some(r[1]), observed |-> Some(r[2])]]
        : pid \in {None, Some("")} \cup {Some(p) : p \in ParamIds}, r \in Readings }
    \cup { [properties |-> [value |-> Some(140), observed |-> Some(11)]], EmptyDict }

ObservationBodies ==
    { [features |-> f] : f \in SeqsUpTo(ObservationFeatures, MaxFeatures) } \cup { EmptyDict }

ObservationHttp == HttpOutcomes(ObservationBodies)

\* the coordinator hands the observations on unread, so its cycles draw the
\* feeds of at most two features (enough for every Record over ParamIds)
CycleObservationHttp ==
    HttpOutcomes({ b \in ObservationBodies : Len(Get(b, "features", << >>)) <= 2 })

RangeNames ==
    { "temperature-2m", "wind-speed-10m", "wind-dir-10m",
      "relative-humidity", "total-precipitation", "cloud-cover" }

\* a grid value: JSON null or a number (28865 is 288.65 K for temperature-2m)
GridValues == { None, Some(28865) }

TimeAxes == { [i \in 1..m |-> 100 + i] : m \in 0..MaxSteps }

ForecastRanges ==
    UNION { [S -> { [values |-> v] : v \in SeqsUpTo(GridValues, MaxSteps) }]
              : S \in { T \in SUBSET RangeNames : Cardinality(T) <= MaxRanges } }

ForecastBodies ==
    { [domain |-> [axes |-> [t |-> [values |-> ta]]], ranges |-> rg]
        : ta \in TimeAxes, rg \in ForecastRanges }
    \cup { EmptyDict }

ForecastHttp == HttpOutcomes(ForecastBodies)

\* the coordinator hands the forecast on unread, so its cycles draw the
\* bodies with at most one time step
CycleForecastHttp ==
    HttpOutcomes({ b \in ForecastBodies :
                     \/ b = EmptyDict
                     \/ Len(b.domain.axes.t.values) <= 1 })

StationIds == { "06180", "06181" }

StationProperties ==
    { ("name" :> Some("A")) @@ sid
        : sid \in { EmptyDict } \cup
                  { ("stationId" :> v) : v \in { None, Some("") } \cup { Some(i) : i \in StationIds } } }

StationGeometries ==
    { EmptyDict, ("geometry" :> None), ("geometry" :> Some(EmptyDict)) }
    \cup { ("geometry" :> Some([coordinates |-> c]))
             : c \in { << >>, << Some(12) >>, << Some(12), Some(55) >> } }

StationFeatures == { ("properties" :> p) @@ g : p \in StationProperties, g \in StationGeometries }

StationBodies ==
    { [features |-> f] : f \in SeqsUpTo(StationFeatures, MaxFeatures) } \cup { EmptyDict }

StationHttp == HttpOutcomes(StationBodies)

\* test_connection asks for limit=1 (api.py 214)
TestConnectionHttp ==
    HttpOutcomes({ b \in StationBodies : Len(Get(b, "features", << >>)) <= 1 })

(* ------------------------------- state --------------------------------- *)

VARIABLES
    station_id,        \* coordinator.station_id
    latitude,          \* coordinator.latitude  (None or Some(number))
    longitude,         \* coordinator.longitude (None or Some(number))
    include_forecast,  \* coordinator.include_forecast
    update_interval,   \* coordinator.update_interval, in seconds
    entry_options,     \* config_entry.options the coordinator was built from
    pc,                \* where the running _async_update_data stands
    now,               \* the wall clock
    deadline,          \* when the async_timeout of the running cycle expires
    obs_await,         \* what `await get_observations` yielded in this cycle
    fc_await,          \* what `await get_forecast` yielded in this cycle
    timed_out,         \* the async_timeout of this cycle expired
    n_obs_requests,    \* observation requests issued in this cycle
    n_fc_requests,     \* forecast requests issued in this cycle
    result,            \* how the last _async_update_data ended
    call,              \* the last direct call of a client operation
    flow_stations,     \* DMIConfigFlow._stations of the flow in progress
    flow_input,        \* the user_input of the flow's last step
    flow_fetched,      \* what `await get_stations` yielded in the flow's last step
    flow_result,       \* the ConfigFlowResult of the flow's last step
    entries,           \* the host's config entries of this integration
    coordinator_data,  \* coordinator.data as the entities read it
    sensors,           \* the sensor entities added at platform setup
    invocations,       \* the overlapping calls of _async_update_data
    frames             \* the local variables of those calls

cfg_vars == << station_id, latitude, longitude, include_forecast, update_interval,
              entry_options >>

cycle_vars == << pc, now, deadline, obs_await, fc_await, timed_out,
                 n_obs_requests, n_fc_requests, result >>

flow_vars == << flow_stations, flow_input, flow_fetched, flow_result, entries >>

entity_vars == << coordinator_data, sensors >>

overlap_vars == << invocations, frames >>

vars == << station_id, latitude, longitude, include_forecast, update_interval,
           entry_options, pc, now, deadline,
           obs_await, fc_await, timed_out, n_obs_requests, n_fc_requests, result, call,
           flow_stations, flow_input, flow_fetched, flow_result, entries,
           coordinator_data, sensors, invocations, frames >>

Fetching == { "FetchingObservations", "FetchingForecast" }

Terminal == { "Succeeded", "Failed" }

(* --------------------------- coordinator.py ---------------------------- *)

\* async_timeout.timeout(30) (coordinator.py 84)
TIMEOUT == 30

\* the forecast condition without the longitude test
forecast_wanted_no_longitude ==
    include_forecast /\ latitude # None

\* the condition of the forecast step (coordinator.py 90-94)
forecast_wanted ==
    include_forecast /\ latitude # None /\ longitude # None

\* the forecast step with `except CannotConnect` in place of `except Exception`
forecast_step_only_cannot_connect(outcome) ==
    IF outcome.ok THEN Return(Some(outcome.value))
    ELSE IF IsInstance(outcome.exc, "CannotConnect") THEN Return(None)
    ELSE outcome

\* the forecast step without its try/except
forecast_step_unguarded(outcome) ==
    IF outcome.ok THEN Return(Some(outcome.value)) ELSE outcome

\* the try/except around get_forecast (coordinator.py 95-101): what the local
\* `forecast` is afterwards, or the exception that is not an Exception
forecast_step(outcome) ==
    IF outcome.ok THEN Return(Some(outcome.value))
    ELSE IF IsInstance(outcome.exc, "Exception") THEN Return(None)
    ELSE outcome

\* the returned dict with the forecast left out
snapshot_drops_forecast(observations, forecast) ==
    [observations |-> observations, forecast |-> None, last_updated |-> now]

\* the returned dict (coordinator.py 103-107)
snapshot(observations, forecast) ==
    [observations |-> observations, forecast |-> forecast, last_updated |-> now]

UpdateFailed(kind, err) == [cls |-> "UpdateFailed", kind |-> kind, cause |-> err]

\* the except clauses with the rate limit reported as a connection error
update_failed_rate_as_connection(err) ==
    IF IsInstance(err, "RateLimitExceeded") \/ IsInstance(err, "CannotConnect")
    THEN Raise([cls |-> "UpdateFailed", kind |-> "connection", cause |-> err])
    ELSE IF IsInstance(err, "TimeoutError")
    THEN Raise([cls |-> "UpdateFailed", kind |-> "timeout", cause |-> err])
    ELSE Raise(err)

\* the except clauses without `except CannotConnect`
update_failed_no_connection(err) ==
    IF IsInstance(err, "RateLimitExceeded")
    THEN Raise([cls |-> "UpdateFailed", kind |-> "rate_limited", cause |-> err])
    ELSE IF IsInstance(err, "TimeoutError")
    THEN Raise([cls |-> "UpdateFailed", kind |-> "timeout", cause |-> err])
    ELSE Raise(err)

\* the except clauses of _async_update_data (coordinator.py 109-116); an
\* exception none of them matches leaves the coroutine as it is
update_failed(err) ==
    IF IsInstance(err, "RateLimitExceeded") THEN Raise(UpdateFailed("rate_limited", err))
    ELSE IF IsInstance(err, "CannotConnect") THEN Raise(UpdateFailed("connection", err))
    ELSE IF IsInstance(err, "TimeoutError") THEN Raise(UpdateFailed("timeout", err))
    ELSE Raise(err)

\* const.DEFAULT_UPDATE_INTERVAL, in seconds
DEFAULT_UPDATE_INTERVAL == 600

\* the options a config entry carries: none, or what the options flow saved
EntryOptions ==
    { EmptyDict, [update_interval |-> 30, include_forecast |-> FALSE] }

\* the construction with the default interval taken as minutes
coordinator_init_default_in_seconds(opts) ==
    [include_forecast |-> Get(opts, "include_forecast", TRUE),
     update_interval  |-> 60 * Get(opts, "update_interval", DEFAULT_UPDATE_INTERVAL)]

\* what __init__ takes from config_entry.options (coordinator.py 55-64):
\* timedelta(minutes=...) is kept in seconds
coordinator_init(opts) ==
    [include_forecast |-> Get(opts, "include_forecast", TRUE),
     update_interval  |-> 60 * Get(opts, "update_interval", DEFAULT_UPDATE_INTERVAL \div 60)]

\* two calls of _async_update_data can be in progress at once
Invocations == { 1, 2 }

\* a call that is not in progress: no position, nothing awaited, no outcome
NotRunning == [pc |-> "Idle", fetched_obs |-> None, fetched_fc |-> None, result |-> None]

\* the locals `observations` and `forecast` before they are assigned
NoLocals == [observations |-> None, forecast |-> None]

\* the locals kept in one place for every call
frame_of_shared(i) == 1

\* each call of the coroutine has its own locals
frame_of(i) == i

(* ------------------------------ actions -------------------------------- *)

\* the coordinator after __init__ (coordinator.py 49-64), for each config entry
Init ==
    /\ station_id = "06180"
    /\ latitude \in { None, Some(55) }
    /\ longitude \in { None, Some(12) }
    /\ entry_options \in EntryOptions
    /\ include_forecast = coordinator_init(entry_options).include_forecast
    /\ update_interval = coordinator_init(entry_options).update_interval
    /\ pc = "Idle"
    /\ now = 0
    /\ deadline = 0
    /\ obs_await = None
    /\ fc_await = None
    /\ timed_out = FALSE
    /\ n_obs_requests = 0
    /\ n_fc_requests = 0
    /\ result = None
    /\ call = None
    /\ flow_stations = << >>
    /\ flow_input = None
    /\ flow_fetched = None
    /\ flow_result = None
    /\ entries = << >>
    /\ coordinator_data = None
    /\ sensors = None
    /\ invocations = [i \in Invocations |-> NotRunning]
    /\ frames = [i \in Invocations |-> NoLocals]

\* a cycle that sends both requests at its start
StartCycle_requests_both ==
    /\ pc = "Idle"
    /\ now + TIMEOUT <= MaxNow
    /\ pc' = "FetchingObservations"
    /\ deadline' = now + TIMEOUT
    /\ obs_await' = None
    /\ fc_await' = None
    /\ timed_out' = FALSE
    /\ n_obs_requests' = 1
    /\ n_fc_requests' = 1
    /\ result' = None
    /\ UNCHANGED << cfg_vars, overlap_vars, flow_vars, entity_vars, now, call >>

\* the host invokes _async_update_data: the timeout is armed and
\* get_observations is awaited (coordinator.py 83-86)
StartCycle ==
    /\ pc = "Idle"
    /\ now + TIMEOUT <= MaxNow
    /\ pc' = "FetchingObservations"
    /\ deadline' = now + TIMEOUT
    /\ obs_await' = None
    /\ fc_await' = None
    /\ timed_out' = FALSE
    /\ n_obs_requests' = 1
    /\ n_fc_requests' = 0
    /\ result' = None
    /\ UNCHANGED << cfg_vars, overlap_vars, flow_vars, entity_vars, now, call >>

\* time passes while a request is in flight
Tick ==
    /\ pc \in Fetching
    /\ now < deadline
    /\ now' = now + 1
    /\ UNCHANGED << cfg_vars, overlap_vars, flow_vars, entity_vars, pc, deadline, obs_await, fc_await, timed_out,
                    n_obs_requests, n_fc_requests, result, call >>

\* a get_observations that raised is awaited once more
ObservationsDone_retries ==
    /\ pc = "FetchingObservations"
    /\ now < deadline
    /\ \E http \in CycleObservationHttp :
         LET outcome == get_observations(http) IN
         /\ obs_await' = Some(outcome)
         /\ IF ~outcome.ok
            THEN /\ pc' = "FetchingObservations"
                 /\ n_obs_requests' = n_obs_requests + 1
                 /\ UNCHANGED << result, n_fc_requests >>
            ELSE IF forecast_wanted
            THEN /\ pc' = "FetchingForecast"
                 /\ n_fc_requests' = n_fc_requests + 1
                 /\ UNCHANGED << result, n_obs_requests >>
            ELSE /\ pc' = "Succeeded"
                 /\ result' = Some(Return(snapshot(outcome.value, None)))
                 /\ UNCHANGED << n_fc_requests, n_obs_requests >>
    /\ UNCHANGED << cfg_vars, overlap_vars, flow_vars, entity_vars, now, deadline, fc_await, timed_out, call >>

\* `await get_observations` completes (coordinator.py 86): on a return the
\* coroutine runs on to the forecast request or to the return statement, on a
\* raise to the except clauses
ObservationsDone ==
    /\ pc = "FetchingObservations"
    /\ now < deadline
    /\ \E http \in CycleObservationHttp :
         LET outcome == get_observations(http) IN
         /\ obs_await' = Some(outcome)
         /\ IF ~outcome.ok
            THEN /\ pc' = "Failed"
                 /\ result' = Some(update_failed(outcome.exc))
                 /\ UNCHANGED n_fc_requests
            ELSE IF forecast_wanted
            THEN /\ pc' = "FetchingForecast"
                 /\ n_fc_requests' = n_fc_requests + 1
                 /\ UNCHANGED result
            ELSE /\ pc' = "Succeeded"
                 /\ result' = Some(Return(snapshot(outcome.value, None)))
                 /\ UNCHANGED n_fc_requests
    /\ UNCHANGED << cfg_vars, overlap_vars, flow_vars, entity_vars, now, deadline, fc_await, timed_out, n_obs_requests, call >>

\* `await get_forecast` completes (coordinator.py 95-107)
ForecastDone ==
    /\ pc = "FetchingForecast"
    /\ now < deadline
    /\ \E http \in CycleForecastHttp :
         LET outcome  == get_forecast(http)
             forecast == forecast_step(outcome)
         IN
         /\ fc_await' = Some(outcome)
         /\ IF forecast.ok
            THEN /\ pc' = "Succeeded"
                 /\ result' = Some(Return(snapshot(obs_await[1].value, forecast.value)))
            ELSE /\ pc' = "Failed"
                 /\ result' = Some(update_failed(forecast.exc))
    /\ UNCHANGED << cfg_vars, overlap_vars, flow_vars, entity_vars, now, deadline, obs_await, timed_out,
                    n_obs_requests, n_fc_requests, call >>

\* a timeout that covers only the observation fetch
Timeout_observations_only ==
    /\ pc = "FetchingObservations"
    /\ now = deadline
    /\ timed_out' = TRUE
    /\ pc' = "Failed"
    /\ result' = Some(Raise([cls |-> "UpdateFailed", kind |-> "timeout",
                             cause |-> Exc("TimeoutError", 0)]))
    /\ UNCHANGED << cfg_vars, overlap_vars, flow_vars, entity_vars, now, deadline, obs_await, fc_await,
                    n_obs_requests, n_fc_requests, call >>

\* the async_timeout expires while a request is awaited: the task is
\* cancelled, CancelledError (not an Exception) passes the forecast's
\* `except Exception`, and the context manager turns it into TimeoutError
\* (coordinator.py 84, 115-116)
Timeout ==
    /\ pc \in Fetching
    /\ now = deadline
    /\ timed_out' = TRUE
    /\ pc' = "Failed"
    /\ result' = Some(update_failed(Exc("TimeoutError", 0)))
    /\ UNCHANGED << cfg_vars, overlap_vars, flow_vars, entity_vars, now, deadline, obs_await, fc_await,
                    n_obs_requests, n_fc_requests, call >>

\* a coordinator that stays failed once a cycle has failed
ReturnToIdle_failure_sticks ==
    /\ pc \in Terminal
    /\ pc' = IF pc = "Failed" THEN "Failed" ELSE "Idle"
    /\ obs_await' = None
    /\ fc_await' = None
    /\ UNCHANGED << cfg_vars, overlap_vars, flow_vars, entity_vars, now, deadline, timed_out, n_obs_requests,
                    n_fc_requests, result, call >>

\* the coroutine is over and its locals are gone; the host has the outcome
ReturnToIdle ==
    /\ pc \in Terminal
    /\ pc' = "Idle"
    /\ obs_await' = None
    /\ fc_await' = None
    /\ UNCHANGED << cfg_vars, overlap_vars, flow_vars, entity_vars, now, deadline, timed_out, n_obs_requests,
                    n_fc_requests, result, call >>

Next ==
    \/ StartCycle
    \/ Tick
    \/ ObservationsDone
    \/ ForecastDone
    \/ Timeout
    \/ ReturnToIdle

Spec == Init /\ [][Next]_vars

\* the event loop keeps time moving and fires an expired timer
FairSpec == Spec /\ WF_vars(Tick) /\ WF_vars(Timeout)

(* A client operation called directly, on whatever the session does. *)

CallGetStations ==
    /\ call = None
    /\ \E http \in StationHttp :
         call' = Some([op |-> "get_stations", http |-> http, outcome |-> get_stations(http)])
    /\ UNCHANGED << cfg_vars, overlap_vars, flow_vars, entity_vars, cycle_vars >>

CallGetObservations ==
    /\ call = None
    /\ \E http \in ObservationHttp :
         call' = Some([op |-> "get_observations", http |-> http,
                       outcome |-> get_observations(http)])
    /\ UNCHANGED << cfg_vars, overlap_vars, flow_vars, entity_vars, cycle_vars >>

CallGetForecast ==
    /\ call = None
    /\ \E http \in ForecastHttp :
         call' = Some([op |-> "get_forecast", http |-> http, outcome |-> get_forecast(http)])
    /\ UNCHANGED << cfg_vars, overlap_vars, flow_vars, entity_vars, cycle_vars >>

CallTestConnection ==
    /\ call = None
    /\ \E http \in TestConnectionHttp :
         call' = Some([op |-> "test_connection", http |-> http,
                       outcome |-> test_connection(http)])
    /\ UNCHANGED << cfg_vars, overlap_vars, flow_vars, entity_vars, cycle_vars >>

\* the caller has consumed the outcome
CallOver ==
    /\ call # None
    /\ call' = None
    /\ UNCHANGED << cfg_vars, overlap_vars, flow_vars, entity_vars, cycle_vars >>

ClientNext ==
    \/ CallGetStations
    \/ CallGetObservations
    \/ CallGetForecast
    \/ CallTestConnection
    \/ CallOver

ClientSpec == Init /\ [][ClientNext]_vars

(* --------------------------- config_flow.py ---------------------------- *)

\* hass.config.latitude and hass.config.longitude of the host
HassLatitude == 56

HassLongitude == 11

\* f"dmi_{station_id}"
unique_id_of(chosen_id) == << "dmi", chosen_id >>

\* station_name = "DMI Weather"
DefaultStationName == << "DMI Weather" >>

\* `for station in self._stations: if station["stationId"] == station_id:
\* ... break`: the index of the first match, 0 when there is none
find_station(stations, chosen_id) ==
    IF \E i \in 1..Len(stations) : stations[i].stationId = chosen_id
    THEN CHOOSE i \in 1..Len(stations) :
            /\ stations[i].stationId = chosen_id
            /\ \A j \in 1..(i - 1) : stations[j].stationId # chosen_id
    ELSE 0

\* the entry data with the host's coordinates never taken
entry_data_ignores_override(stations, chosen_id, use_coordinates) ==
    LET i == find_station(stations, chosen_id) IN
    [station_id      |-> chosen_id,
     station_name    |-> IF i = 0 THEN DefaultStationName
                         ELSE IF Truthy(stations[i].name) THEN stations[i].name
                         ELSE << "Station", chosen_id >>,
     latitude        |-> IF i = 0 THEN None ELSE stations[i].latitude,
     longitude       |-> IF i = 0 THEN None ELSE stations[i].longitude,
     use_coordinates |-> use_coordinates]

\* the name and coordinates found for the submitted id, and the `data` of
\* async_create_entry (config_flow.py 70-99)
entry_data(stations, chosen_id, use_coordinates) ==
    LET i == find_station(stations, chosen_id) IN
    [station_id      |-> chosen_id,
     station_name    |-> IF i = 0 THEN DefaultStationName
                         ELSE IF Truthy(stations[i].name) THEN stations[i].name
                         ELSE << "Station", chosen_id >>,
     latitude        |-> IF use_coordinates THEN Some(HassLatitude)
                         ELSE IF i = 0 THEN None ELSE stations[i].latitude,
     longitude       |-> IF use_coordinates THEN Some(HassLongitude)
                         ELSE IF i = 0 THEN None ELSE stations[i].longitude,
     use_coordinates |-> use_coordinates]

\* the check that lets every unique id through
abort_if_unique_id_configured_never(unique_id, configured) == FALSE

\* ConfigFlow._abort_if_unique_id_configured: an entry of this integration
\* already has the flow's unique id
abort_if_unique_id_configured(unique_id, configured) ==
    \E i \in 1..Len(configured) : configured[i].unique_id = unique_id

\* self.async_show_form(step_id="station", data_schema=..., errors=...)
show_form(data_schema, errors) ==
    [type |-> "form", step_id |-> "station", data_schema |-> data_schema, errors |-> errors]

\* self.async_create_entry(title=..., data=...)
create_entry(title, data) == [type |-> "create_entry", title |-> title, data |-> data]

\* AbortFlow(reason)
abort(reason) == [type |-> "abort", reason |-> reason]

\* one item of station_options; the label f"{name} ({stationId})" is the
\* pair, the bare stationId the singleton
option_of(station) ==
    [value |-> station.stationId,
     label |-> IF Truthy(station.name)
               THEN << station.name[1], station.stationId[1] >>
               ELSE << station.stationId[1] >>]

\* the list comprehension of station_options
station_options(stations) ==
    LET kept == SelectSeq(stations, LAMBDA st : Truthy(st.stationId))
    IN  [i \in 1..Len(kept) |-> option_of(kept[i])]

IdRank(id) == IF id = "06180" THEN 1 ELSE 2

\* the place of a label in string order: a bare id starts with a digit and
\* sorts before every "A (...)"; among labels of one shape the id decides
LabelRank(label) ==
    IF Len(label) = 1 THEN IdRank(label[1]) ELSE 2 + IdRank(label[2])

\* station_options.sort(key=lambda x: x["label"]), a stable sort
RECURSIVE sort_by_label(_)
sort_by_label(options) ==
    IF Len(options) = 0 THEN << >>
    ELSE LET sorted == sort_by_label(SubSeq(options, 1, Len(options) - 1))
             x      == options[Len(options)]
             k      == Cardinality({ j \in 1..Len(sorted) :
                                       LabelRank(sorted[j].label) <= LabelRank(x.label) })
         IN  SubSeq(sorted, 1, k) \o << x >> \o SubSeq(sorted, k + 1, Len(sorted))

\* the except clauses with every failure reported as cannot_connect
fetch_error_form_always_cannot_connect(exc) ==
    show_form(EmptyDict, [base |-> "cannot_connect"])

\* the except clauses around the fetch (config_flow.py 107-121)
fetch_error_form(exc) ==
    IF IsInstance(exc, "CannotConnect") THEN show_form(EmptyDict, [base |-> "cannot_connect"])
    ELSE show_form(EmptyDict, [base |-> "unknown"])

\* async_step_station with user_input: what is left in self._stations, what
\* was awaited, the result and the host's entries afterwards
step_station_submit(stations, user_input, configured) ==
    LET chosen_id       == Get(user_input, "station_id", None)
        use_coordinates == Get(user_input, "use_coordinates", FALSE)
        data            == entry_data(stations, chosen_id, use_coordinates)
        unique_id       == unique_id_of(chosen_id)
    IN  IF abort_if_unique_id_configured(unique_id, configured)
        THEN [stations |-> stations, fetched |-> None,
              result |-> abort("already_configured"), entries |-> configured]
        ELSE [stations |-> stations, fetched |-> None,
              result |-> create_entry(data.station_name, data),
              entries |-> Append(configured, [unique_id |-> unique_id,
                                              title     |-> data.station_name,
                                              data      |-> data])]

\* async_step_station without user_input
step_station_fetch(stations, http, configured) ==
    LET fetched == get_stations(http) IN
    IF ~fetched.ok
    THEN [stations |-> stations, fetched |-> Some(fetched),
          result |-> fetch_error_form(fetched.exc), entries |-> configured]
    ELSE [stations |-> fetched.value, fetched |-> Some(fetched),
          result |-> show_form([station_id      |-> sort_by_label(station_options(fetched.value)),
                                use_coordinates |-> FALSE],
                               EmptyDict),
          entries |-> configured]

\* the station feeds the flow meets: a station with coordinates, the same
\* id again without geometry, and an unnamed station
FlowStationFeatures ==
    { [properties |-> [stationId |-> Some("06180"), name |-> Some("A")],
       geometry   |-> Some([coordinates |-> << Some(12), Some(55) >>])],
      [properties |-> [stationId |-> Some("06180"), name |-> Some("A")]],
      [properties |-> [stationId |-> Some("06181")],
       geometry   |-> Some([coordinates |-> << Some(12), Some(55) >>])] }

FlowStationBodies == { [features |-> f] : f \in SeqsUpTo(FlowStationFeatures, MaxFlowStations) }

FlowHttp == HttpOutcomes(FlowStationBodies)

\* what the form submits: a station id, and use_coordinates when it was set
UserInputs ==
    { ("station_id" :> Some(i)) @@ u
        : i \in StationIds,
          u \in { EmptyDict, ("use_coordinates" :> TRUE), ("use_coordinates" :> FALSE) } }

InProgress == flow_result # None /\ flow_result[1].type = "form"

FlowStep(user_input, r) ==
    /\ flow_stations' = r.stations
    /\ flow_input' = user_input
    /\ flow_fetched' = r.fetched
    /\ flow_result' = Some(r.result)
    /\ entries' = r.entries
    /\ UNCHANGED << cfg_vars, overlap_vars, cycle_vars, entity_vars, call >>

\* hass.config_entries.flow.async_init: a new DMIConfigFlow, whose
\* async_step_user runs the station step without input
FlowInit ==
    /\ flow_result = None
    /\ \E http \in FlowHttp : FlowStep(None, step_station_fetch(<< >>, http, entries))

\* async_configure without input: the station step fetches again
FlowRefetch ==
    /\ InProgress
    /\ \E http \in FlowHttp : FlowStep(None, step_station_fetch(flow_stations, http, entries))

\* async_configure with the submitted input
FlowSubmit ==
    /\ InProgress
    /\ \E u \in UserInputs : FlowStep(Some(u), step_station_submit(flow_stations, u, entries))

\* a flow that created an entry or aborted is removed by the flow manager
FlowRemoved ==
    /\ flow_result # None
    /\ flow_result[1].type \in { "create_entry", "abort" }
    /\ flow_stations' = << >>
    /\ flow_input' = None
    /\ flow_fetched' = None
    /\ flow_result' = None
    /\ UNCHANGED << cfg_vars, overlap_vars, cycle_vars, entity_vars, call, entries >>

FlowNext ==
    \/ FlowInit
    \/ FlowRefetch
    \/ FlowSubmit
    \/ FlowRemoved

FlowSpec == Init /\ [][FlowNext]_vars

(* ------------------------ weather.py, sensor.py ------------------------ *)
(* An observation value is whatever the feed's JSON held: an int, a float   *)
(* (in tenths), the floats a literal like 1e999 or NaN decodes to, a        *)
(* string, or a list.                                                       *)

JInt(n) == [json |-> "int", n |-> n]

JFloat(t) == [json |-> "float", tenths |-> t]

JInf == [json |-> "float_inf"]

JNaN == [json |-> "float_nan"]

JStr(str) == [json |-> "str", s |-> str]

JList == [json |-> "list"]

\* the strings int() and float() accept, with the integer they denote
IntLiterals == [str \in { "2", "15" } |-> IF str = "2" THEN 2 ELSE 15]

\* int(x): floats are truncated, infinity overflows, NaN and a string that
\* is no integer literal are ValueErrors, a list is a TypeError
py_int(v) ==
    CASE v.json = "int"       -> Return(v.n)
      [] v.json = "float"     -> Return(IF v.tenths >= 0 THEN v.tenths \div 10
                                        ELSE -((-v.tenths) \div 10))
      [] v.json = "float_inf" -> Raise(Exc("OverflowError", 0))
      [] v.json = "float_nan" -> Raise(Exc("ValueError", 0))
      [] v.json = "str"       -> IF v.s \in DOMAIN IntLiterals
                                 THEN Return(IntLiterals[v.s])
                                 ELSE Raise(Exc("ValueError", 0))
      [] v.json = "list"      -> Raise(Exc("TypeError", 0))

\* float(x)
py_float(v) ==
    CASE v.json = "int"       -> Return(JFloat(10 * v.n))
      [] v.json = "float"     -> Return(v)
      [] v.json = "float_inf" -> Return(v)
      [] v.json = "float_nan" -> Return(v)
      [] v.json = "str"       -> IF v.s \in DOMAIN IntLiterals
                                 THEN Return(JFloat(10 * IntLiterals[v.s]))
                                 ELSE Raise(Exc("ValueError", 0))
      [] v.json = "list"      -> Raise(Exc("TypeError", 0))

\* `x < bound` for a float x: false for infinity and for NaN
float_below(x, bound) == x.json = "float" /\ x.tenths < 10 * bound

\* const.CONDITION_MAP
CONDITION_MAP ==
    [code \in { 0, 1, 2, 3, 45, 48, 51, 53, 55, 56, 57, 61, 63, 65, 66, 67,
                71, 73, 75, 77, 80, 81, 82, 85, 86, 95, 96, 99 } |->
        CASE code \in { 0, 1 }                                   -> "sunny"
          [] code = 2                                            -> "partlycloudy"
          [] code = 3                                            -> "cloudy"
          [] code \in { 45, 48 }                                 -> "fog"
          [] code \in { 51, 53, 55, 56, 57, 61, 63, 80, 81 }     -> "rainy"
          [] code \in { 65, 82 }                                 -> "pouring"
          [] code \in { 66, 67 }                                 -> "snowy-rainy"
          [] code \in { 71, 73, 75, 77, 85, 86 }                 -> "snowy"
          [] code = 95                                           -> "lightning-rainy"
          [] code \in { 96, 99 }                                 -> "hail"]

\* DMIWeather._observations
weather_observations(d) ==
    IF d = None THEN EmptyDict ELSE Get(d[1], "observations", EmptyDict)

\* DMIWeather._get_observation_value
get_observation_value(d, key) ==
    LET obs == Get(weather_observations(d), key, EmptyDict)
    IN  IF DOMAIN obs # {} THEN Get(obs, "value", None) ELSE None

\* the thresholds of the cloud-cover estimate (weather.py 104-109, 189-194)
cloud_condition(cover) ==
    IF float_below(cover, 20) THEN "sunny"
    ELSE IF float_below(cover, 60) THEN "partlycloudy"
    ELSE "cloudy"

\* `except (ValueError, TypeError)`
conversion_error(exc) == IsInstance(exc, "ValueError") \/ IsInstance(exc, "TypeError")

\* the second half of DMIWeather.condition (weather.py 99-113)
condition_from_cloud_cover(d) ==
    LET cloud_cover == get_observation_value(d, "cloud_cover") IN
    IF cloud_cover = None THEN Return("cloudy")
    ELSE LET cover == py_float(cloud_cover[1]) IN
         IF cover.ok THEN Return(cloud_condition(cover.value))
         ELSE IF conversion_error(cover.exc) THEN Return("cloudy")
         ELSE cover

\* DMIWeather.condition
condition(d) ==
    LET weather_code == get_observation_value(d, "weather") IN
    IF weather_code = None THEN condition_from_cloud_cover(d)
    ELSE LET code == py_int(weather_code[1]) IN
         IF code.ok THEN Return(Get(CONDITION_MAP, code.value, "cloudy"))
         ELSE IF conversion_error(code.exc) THEN condition_from_cloud_cover(d)
         ELSE code

\* `if "<field>" in entry: forecast["<key>"] = entry["<field>"]`
copy_field(forecast, entry, field, key) ==
    IF field \in DOMAIN entry THEN Put(forecast, key, entry[field]) ELSE forecast

\* the estimate of an hourly entry's condition (weather.py 188-194)
hourly_condition(cloud) ==
    IF cloud < 20 THEN "sunny"
    ELSE IF cloud < 60 THEN "partlycloudy"
    ELSE "cloudy"

\* the body of the loop of async_forecast_hourly (weather.py 167-196)
forecast_item(entry) ==
    LET f0 == [k \in {"datetime"} |-> entry["datetime"]]
        f1 == copy_field(f0, entry, "temperature", "native_temperature")
        f2 == copy_field(f1, entry, "wind_speed", "native_wind_speed")
        f3 == copy_field(f2, entry, "wind_dir", "wind_bearing")
        f4 == copy_field(f3, entry, "humidity", "humidity")
        f5 == copy_field(f4, entry, "precipitation", "native_precipitation")
    IN  IF "cloud_cover" \in DOMAIN entry
        THEN Put(f5, "condition", hourly_condition(entry["cloud_cover"]))
        ELSE f5

\* the hourly forecast with an empty list handed on as an empty list
async_forecast_hourly_empty_list(d) ==
    IF d = None THEN None
    ELSE LET forecast_data == Get(d[1], "forecast", None) IN
         IF forecast_data = None THEN None
         ELSE LET hourly == Get(forecast_data[1], "hourly", << >>) IN
              Some([i \in 1..Len(hourly) |-> forecast_item(hourly[i])])

\* DMIWeather.async_forecast_hourly: None or Some(list of Forecast)
async_forecast_hourly(d) ==
    IF d = None THEN None
    ELSE LET forecast_data == Get(d[1], "forecast", None) IN
         IF forecast_data = None THEN None
         ELSE LET hourly == Get(forecast_data[1], "hourly", << >>) IN
              IF Len(hourly) = 0 THEN None
              ELSE Some([i \in 1..Len(hourly) |-> forecast_item(hourly[i])])

\* the keys of const.SENSOR_TYPES, in order
SENSOR_TYPES ==
    << "temp_dry", "temp_dew", "humidity", "pressure_at_sea", "wind_speed", "wind_max",
       "wind_dir", "precip_past1h", "visibility", "cloud_cover", "radia_glob" >>

\* sensor.async_setup_entry: the keys of the sensors it adds
sensor_setup(d) ==
    LET observations     == IF d # None THEN Get(d[1], "observations", EmptyDict)
                            ELSE EmptyDict
        available_params == DOMAIN observations
    IN  SelectSeq(SENSOR_TYPES, LAMBDA key : key \in available_params)

\* the weather codes and cloud covers a Snapshot's observations can carry
WeatherValues ==
    { None, Some(JInt(0)), Some(JInt(3)), Some(JInt(65)), Some(JInt(999)), Some(JFloat(27)),
      Some(JStr("2")), Some(JStr("invalid")), Some(JInf), Some(JNaN), Some(JList) }

CloudValues ==
    { None, Some(JInt(19)), Some(JInt(20)), Some(JInt(59)), Some(JInt(60)), Some(JFloat(199)),
      Some(JStr("15")), Some(JStr("invalid")), Some(JInf), Some(JNaN) }

EntityObservations ==
    { w @@ c @@ t
        : w \in { EmptyDict } \cup
                { ("weather" :> [value |-> v, observed |-> Some(11)]) : v \in WeatherValues },
          c \in { EmptyDict } \cup
                { ("cloud_cover" :> [value |-> v, observed |-> Some(11)]) : v \in CloudValues },
          t \in { EmptyDict,
                  ("temp_dry" :> [value |-> Some(JFloat(140)), observed |-> Some(11)]) } }

\* hourly Forecast Entries: bare, with one field, with every field
HourlyEntries ==
    LET bare == [k \in {"datetime"} |-> 101] IN
    { bare, Put(bare, "temperature", 1550), Put(bare, "wind_speed", 5),
      Put(bare, "wind_dir", 270), Put(bare, "humidity", 80), Put(bare, "precipitation", 1),
      [datetime |-> 102, temperature |-> 1550, wind_speed |-> 5, wind_dir |-> 270,
       humidity |-> 80, precipitation |-> 1, cloud_cover |-> 60] }
    \cup { Put(bare, "cloud_cover", c) : c \in { 19, 20, 59 } }

EntityForecasts ==
    { None } \cup { Some([hourly |-> h]) : h \in SeqsUpTo(HourlyEntries, MaxHourly) }

\* the Snapshots a successful cycle can have left for the entities
EntitySnapshots ==
    { [observations |-> o, forecast |-> None, last_updated |-> 0] : o \in EntityObservations }
    \cup { [observations |-> EmptyDict, forecast |-> f, last_updated |-> 0]
             : f \in EntityForecasts }

\* a refresh that sets the sensors up again from the new Snapshot
Refreshed_sets_up_sensors ==
    /\ call = None
    /\ \E snap \in EntitySnapshots :
         /\ coordinator_data' = Some(snap)
         /\ sensors' = IF sensors = None THEN None ELSE Some(sensor_setup(Some(snap)))
    /\ UNCHANGED << cfg_vars, overlap_vars, cycle_vars, flow_vars, call >>

\* a cycle succeeded and the DataUpdateCoordinator stored its Snapshot
Refreshed ==
    /\ call = None
    /\ \E snap \in EntitySnapshots : coordinator_data' = Some(snap)
    /\ UNCHANGED << cfg_vars, overlap_vars, cycle_vars, flow_vars, call, sensors >>

\* the host reads the weather entity's condition
ReadCondition ==
    /\ call = None
    /\ call' = Some([op |-> "condition", data |-> coordinator_data,
                     outcome |-> condition(coordinator_data)])
    /\ UNCHANGED << cfg_vars, overlap_vars, cycle_vars, flow_vars, entity_vars >>

\* the host asks the weather entity for its hourly forecast
ReadForecastHourly ==
    /\ call = None
    /\ call' = Some([op |-> "async_forecast_hourly", data |-> coordinator_data,
                     outcome |-> Return(async_forecast_hourly(coordinator_data))])
    /\ UNCHANGED << cfg_vars, overlap_vars, cycle_vars, flow_vars, entity_vars >>

\* the sensor platform is set up, once per entry
SetupSensors ==
    /\ call = None
    /\ sensors = None
    /\ sensors' = Some(sensor_setup(coordinator_data))
    /\ UNCHANGED << cfg_vars, overlap_vars, cycle_vars, flow_vars, call, coordinator_data >>

EntityNext ==
    \/ Refreshed
    \/ ReadCondition
    \/ ReadForecastHourly
    \/ SetupSensors
    \/ CallOver

EntitySpec == Init /\ [][EntityNext]_vars

(* -------------------- overlapping calls of a cycle --------------------- *)
(* Two calls of _async_update_data of one coordinator, or of two           *)
(* coordinators on one client, interleave at their awaits.                  *)

\* the feeds the overlapping calls are answered with
OverlapObservationHttp ==
    HttpOutcomes({ b \in ObservationBodies : Len(Get(b, "features", << >>)) <= 1 })

\* a call starts and awaits get_observations (coordinator.py 83-86)
InvStart(i) ==
    /\ invocations[i].pc = "Idle"
    /\ invocations' = [invocations EXCEPT ![i] = [NotRunning EXCEPT !.pc = "FetchingObservations"]]
    /\ UNCHANGED << cfg_vars, cycle_vars, flow_vars, entity_vars, call, frames >>

\* the call's `await get_observations` completes (coordinator.py 86-107)
InvObservationsDone(i) ==
    /\ invocations[i].pc = "FetchingObservations"
    /\ \E http \in OverlapObservationHttp :
         LET outcome == get_observations(http)
             assigned == [frames EXCEPT ![frame_of(i)] =
                             [observations |-> Some(outcome.value), forecast |-> None]]
         IN
         IF ~outcome.ok
         THEN /\ invocations' = [invocations EXCEPT ![i] =
                   [pc |-> "Failed", fetched_obs |-> Some(outcome), fetched_fc |-> None,
                    result |-> Some(update_failed(outcome.exc))]]
              /\ UNCHANGED frames
         ELSE IF forecast_wanted
         THEN /\ invocations' = [invocations EXCEPT ![i] =
                   [pc |-> "FetchingForecast", fetched_obs |-> Some(outcome),
                    fetched_fc |-> None, result |-> None]]
              /\ frames' = assigned
         ELSE /\ invocations' = [invocations EXCEPT ![i] =
                   [pc |-> "Succeeded", fetched_obs |-> Some(outcome), fetched_fc |-> None,
                    result |-> Some(Return(snapshot(assigned[frame_of(i)].observations[1],
                                                    assigned[frame_of(i)].forecast)))]]
              /\ frames' = assigned
    /\ UNCHANGED << cfg_vars, cycle_vars, flow_vars, entity_vars, call >>

\* the call's `await get_forecast` completes (coordinator.py 95-107)
InvForecastDone(i) ==
    /\ invocations[i].pc = "FetchingForecast"
    /\ \E http \in CycleForecastHttp :
         LET outcome  == get_forecast(http)
             step     == forecast_step(outcome)
             assigned == IF step.ok
                         THEN [frames EXCEPT ![frame_of(i)].forecast = step.value]
                         ELSE frames
         IN
         /\ frames' = assigned
         /\ invocations' = [invocations EXCEPT ![i] =
              [pc |-> IF step.ok THEN "Succeeded" ELSE "Failed",
               fetched_obs |-> invocations[i].fetched_obs,
               fetched_fc |-> Some(outcome),
               result |-> IF step.ok
                          THEN Some(Return(snapshot(assigned[frame_of(i)].observations[1],
                                                    assigned[frame_of(i)].forecast)))
                          ELSE Some(update_failed(step.exc))]]
    /\ UNCHANGED << cfg_vars, cycle_vars, flow_vars, entity_vars, call >>

\* the call's async_timeout expires while it awaits (coordinator.py 84, 115-116)
InvTimeout(i) ==
    /\ invocations[i].pc \in Fetching
    /\ invocations' = [invocations EXCEPT ![i].pc = "Failed",
                                          ![i].result = Some(update_failed(Exc("TimeoutError", 0)))]
    /\ UNCHANGED << cfg_vars, cycle_vars, flow_vars, entity_vars, call, frames >>

\* the call is over: its caller has the outcome and its locals are gone
InvReturn(i) ==
    /\ invocations[i].pc \in Terminal
    /\ invocations' = [invocations EXCEPT ![i] = NotRunning]
    /\ frames' = [frames EXCEPT ![frame_of(i)] = NoLocals]
    /\ UNCHANGED << cfg_vars, cycle_vars, flow_vars, entity_vars, call >>

OverlapNext ==
    \E i \in Invocations :
        \/ InvStart(i)
        \/ InvObservationsDone(i)
        \/ InvForecastDone(i)
        \/ InvTimeout(i)
        \/ InvReturn(i)

OverlapSpec == Init /\ [][OverlapNext]_vars

(* ------------------------- the cycle's outcome ------------------------- *)

ObsReturned == obs_await # None /\ obs_await[1].ok

ObsRaised(cls) == obs_await # None /\ ~obs_await[1].ok /\ obs_await[1].exc.cls = cls

FcRaised == fc_await # None /\ ~fc_await[1].ok

IsSnapshot == result # None /\ result[1].ok

IsUpdateFailed(kind) ==
    /\ result # None
    /\ ~result[1].ok
    /\ result[1].exc.cls = "UpdateFailed"
    /\ result[1].exc.kind = kind

ForecastEnabled == include_forecast /\ latitude # None /\ longitude # None

\* C1: when the awaited get_forecast raises (rate limit, connectivity or
\* any other Exception), the cycle still succeeds: it returns a Snapshot
\* whose forecast is None and whose observations are what get_observations
\* returned.
C1_ForecastFailureAbsorbed ==
    FcRaised =>
        /\ pc = "Succeeded"
        /\ IsSnapshot
        /\ result[1].value.forecast = None
        /\ result[1].value.observations = obs_await[1].value

C1_Witness ==
    /\ FcRaised
    /\ fc_await[1].exc.cls = "RateLimitExceeded"
    /\ pc = "Succeeded"
    /\ IsSnapshot
    /\ result[1].value.observations # EmptyDict

\* C2: when get_observations raises RateLimitExceeded the cycle fails with
\* UpdateFailed "Rate limit exceeded", never with the connection or timeout
\* kind, and returns no Snapshot.
C2_RateLimitFailsRateLimited ==
    ObsRaised("RateLimitExceeded") =>
        /\ pc = "Failed"
        /\ ~IsSnapshot
        /\ IsUpdateFailed("rate_limited")
        /\ result[1].exc.cause = obs_await[1].exc

C2_Witness == ObsRaised("RateLimitExceeded") /\ pc = "Failed" /\ IsUpdateFailed("rate_limited")

\* C3: when get_observations raises CannotConnect the cycle fails with
\* UpdateFailed "Connection error"; no Snapshot is returned and no forecast
\* is requested.
C3_ConnectionFailsConnection ==
    ObsRaised("CannotConnect") =>
        /\ pc = "Failed"
        /\ ~IsSnapshot
        /\ IsUpdateFailed("connection")
        /\ n_fc_requests = 0

C3_Witness == ObsRaised("CannotConnect") /\ pc = "Failed" /\ IsUpdateFailed("connection")

\* C4: every started cycle reaches a terminal state; while it runs the clock
\* never passes the deadline set TIMEOUT after its start, and a cycle whose
\* timeout expired has failed with UpdateFailed "Timeout".
C4_CycleEndsWithinTimeout ==
    /\ (pc \in Fetching) ~> (pc \in Terminal)
    /\ [][pc = "Idle" /\ pc' # "Idle" => deadline' = now + TIMEOUT]_vars
    /\ [](pc \in Fetching => now <= deadline)
    /\ [](timed_out => ~IsSnapshot /\ IsUpdateFailed("timeout"))

C4_Witness ==
    /\ timed_out
    /\ pc = "Failed"
    /\ now = deadline
    /\ IsUpdateFailed("timeout")
    /\ ObsReturned

\* C5: a forecast request is issued only when include_forecast is true and
\* both coordinates are known; otherwise a cycle whose observations arrived
\* returns at once a Snapshot with forecast None and those observations.
\* When all three hold, the request is issued after the observations.
C5_ForecastOnlyWhenEnabled ==
    /\ n_fc_requests > 0 => ForecastEnabled
    /\ (ObsReturned /\ ~ForecastEnabled) =>
          /\ pc = "Succeeded"
          /\ IsSnapshot
          /\ result[1].value.forecast = None
          /\ result[1].value.observations = obs_await[1].value
          /\ n_fc_requests = 0
    /\ (ObsReturned /\ ForecastEnabled) => n_fc_requests = 1

C5_Witness ==
    /\ pc = "Succeeded"
    /\ include_forecast
    /\ latitude # None
    /\ longitude = None
    /\ n_fc_requests = 0
    /\ IsSnapshot
    /\ result[1].value.observations # EmptyDict

\* C6 as stated: once get_observations has returned, the cycle never ends
\* in a Failed state.
C6_Original == ObsReturned => pc # "Failed"

\* C6 amended: once get_observations has returned, the cycle can fail only
\* by the overall timeout expiring during the forecast fetch, and then with
\* UpdateFailed "Timeout"; the rate-limit and connection failures come only
\* from a get_observations that raised.
C6_ForecastStepFailsOnlyByTimeout ==
    /\ (ObsReturned /\ pc = "Failed") => (timed_out /\ IsUpdateFailed("timeout"))
    /\ (pc = "Failed" /\ (IsUpdateFailed("rate_limited") \/ IsUpdateFailed("connection")))
          => (obs_await # None /\ ~obs_await[1].ok)
    /\ (ObsReturned /\ pc \in Terminal /\ ~timed_out) => (pc = "Succeeded" /\ IsSnapshot)

C6_Witness == ObsReturned /\ pc = "Failed" /\ timed_out /\ n_fc_requests = 1

\* C7: a cycle that has ended either returned a Snapshot or raised
\* UpdateFailed; nothing else leaves _async_update_data.
C7_Original ==
    pc \in Terminal =>
        /\ result # None
        /\ (result[1].ok \/ result[1].exc.cls = "UpdateFailed")

(* ----------------------- the client operations ------------------------- *)

Called(op) == call # None /\ call[1].op = op

\* the instants reported for parameter p in a feed
ObservedOf(features, p) ==
    { features[i].properties.observed[1] :
        i \in { j \in 1..Len(features) :
                  /\ "properties" \in DOMAIN features[j]
                  /\ "parameterId" \in DOMAIN features[j].properties
                  /\ features[j].properties.parameterId = Some(p) } }

SetMax(S) == CHOOSE x \in S : \A y \in S : y <= x

\* C8: for every feed, the Record of get_observations has one entry per
\* reported parameterId and it carries the latest `observed` instant among
\* the features with that id.
C8_Original ==
    (Called("get_observations") /\ call[1].outcome.ok) =>
        LET features == Get(call[1].http.json.value, "features", << >>)
            record   == call[1].outcome.value
        IN  \A p \in ParamIds :
              ObservedOf(features, p) # {} =>
                 /\ p \in DOMAIN record
                 /\ record[p].observed = Some(SetMax(ObservedOf(features, p)))

\* the session answered 429, as a response or as a ClientResponseError
Is429(http) ==
    \/ http.at = "response" /\ http.status = 429
    \/ http.at = "get" /\ http.exc.cls = "ClientResponseError" /\ http.exc.status = 429

\* C9 as stated: on a 429 each of the four operations raises
\* RateLimitExceeded.
C9_Original ==
    (call # None /\ Is429(call[1].http)) =>
        call[1].outcome = Raise(Exc("RateLimitExceeded", 0))

\* C9 amended: on a 429 get_stations, get_observations and get_forecast
\* raise RateLimitExceeded, and test_connection raises CannotConnect.
C9_RateLimitOn429 ==
    (call # None /\ Is429(call[1].http)) =>
        IF call[1].op = "test_connection"
        THEN call[1].outcome = Raise(Exc("CannotConnect", 0))
        ELSE call[1].outcome = Raise(Exc("RateLimitExceeded", 0))

C9_Witness ==
    /\ Called("get_forecast")
    /\ call[1].http.at = "get"
    /\ Is429(call[1].http)
    /\ call[1].outcome = Raise(Exc("RateLimitExceeded", 0))

\* C10: a client operation that fails raises RateLimitExceeded or
\* CannotConnect and nothing else, and CannotConnect whenever the failure
\* is not a 429.
C10_Original ==
    (call # None /\ ~call[1].outcome.ok) =>
        /\ call[1].outcome.exc.cls \in { "RateLimitExceeded", "CannotConnect" }
        /\ ~Is429(call[1].http) => call[1].outcome.exc.cls = "CannotConnect"

\* the session answered with a status below 400 and a body that json() parsed
HttpSucceeds(http) == http.at = "response" /\ http.status < 400 /\ http.json.ok

\* C11: test_connection returns True when its request succeeds and raises
\* CannotConnect on every failure of that request; it never returns False.
C11_TestConnectionTrueOrCannotConnect ==
    Called("test_connection") =>
        /\ call[1].outcome # Return(FALSE)
        /\ IF HttpSucceeds(call[1].http)
           THEN call[1].outcome = Return(TRUE)
           ELSE call[1].outcome = Raise(Exc("CannotConnect", 0))

C11_Witness ==
    /\ Called("test_connection")
    /\ call[1].http.at = "get"
    /\ call[1].http.exc.cls = "TimeoutError"
    /\ call[1].outcome = Raise(Exc("CannotConnect", 0))

\* the stationId an upstream station feature carries (None when it has none)
UpstreamStationId(f) == Get(Get(f, "properties", EmptyDict), "stationId", None)

\* the upstream features that carry a non-empty stationId, in upstream order
WithStationId(features) == SelectSeq(features, LAMBDA f : Truthy(UpstreamStationId(f)))

\* the k-th coordinate an upstream feature carries, None when its geometry
\* or coordinates are missing, null or too short
UpstreamCoordinate(f, k) ==
    IF "geometry" \notin DOMAIN f THEN None
    ELSE IF f.geometry = None THEN None
    ELSE IF "coordinates" \notin DOMAIN f.geometry[1] THEN None
    ELSE IF Len(f.geometry[1].coordinates) < k THEN None
    ELSE f.geometry[1].coordinates[k]

\* C12: get_stations returns exactly the upstream features that carry a
\* non-empty stationId, in upstream order; the others are left out without
\* an error (n features of which k lack stationId give n-k stations).
C12_Original ==
    (Called("get_stations") /\ HttpSucceeds(call[1].http)) =>
        LET features == Get(call[1].http.json.value, "features", << >>)
            kept     == WithStationId(features)
        IN  /\ call[1].outcome.ok
            /\ Len(call[1].outcome.value) = Len(kept)
            /\ \A i \in 1..Len(kept) :
                 call[1].outcome.value[i].stationId = UpstreamStationId(kept[i])

\* C13: a feature with a stationId whose geometry or coordinates are
\* missing (absent, null, or fewer than two coordinates) is still returned,
\* with the missing longitude / latitude None; the operation does not fail.
C13_Original ==
    (Called("get_stations") /\ HttpSucceeds(call[1].http)) =>
        LET features == Get(call[1].http.json.value, "features", << >>) IN
        (\A i \in 1..Len(features) : Truthy(UpstreamStationId(features[i]))) =>
            /\ call[1].outcome.ok
            /\ Len(call[1].outcome.value) = Len(features)
            /\ \A i \in 1..Len(features) :
                 /\ call[1].outcome.value[i].longitude = UpstreamCoordinate(features[i], 1)
                 /\ call[1].outcome.value[i].latitude = UpstreamCoordinate(features[i], 2)

\* the Forecast Entry field each upstream parameter is copied to
FieldOf(p) ==
    CASE p = "temperature-2m"      -> "temperature"
      [] p = "wind-speed-10m"      -> "wind_speed"
      [] p = "wind-dir-10m"        -> "wind_dir"
      [] p = "relative-humidity"   -> "humidity"
      [] p = "total-precipitation" -> "precipitation"
      [] p = "cloud-cover"         -> "cloud_cover"

\* the time axis of an upstream forecast body
UpstreamTimes(body) ==
    IF "domain" \in DOMAIN body THEN body.domain.axes.t.values ELSE << >>

\* the value the upstream body has for parameter p at index i: None when the
\* range is absent, too short, or null there
UpstreamValue(body, p, i) ==
    IF "ranges" \notin DOMAIN body THEN None
    ELSE IF p \notin DOMAIN body.ranges THEN None
    ELSE IF i > Len(body.ranges[p].values) THEN None
    ELSE body.ranges[p].values[i]

ForecastAnswered == Called("get_forecast") /\ HttpSucceeds(call[1].http)

\* C14: get_forecast returns one entry per element of the time axis, in
\* order, the i-th carrying the i-th time as datetime; an entry has the
\* field of a parameter exactly when the parameter's values have a non-null
\* element at index i, and a short or absent range is not an error.
C14_EntryPerTimeStep ==
    ForecastAnswered =>
        LET body  == call[1].http.json.value
            times == UpstreamTimes(body)
        IN  /\ call[1].outcome.ok
            /\ Len(call[1].outcome.value.hourly) = Len(times)
            /\ \A i \in 1..Len(times) :
                 LET entry == call[1].outcome.value.hourly[i] IN
                 /\ entry.datetime = times[i]
                 /\ DOMAIN entry = {"datetime"} \cup
                       { FieldOf(p) : p \in { q \in RangeNames : UpstreamValue(body, q, i) # None } }

C14_Witness ==
    /\ ForecastAnswered
    /\ call[1].outcome.ok
    /\ Len(call[1].outcome.value.hourly) = 2
    /\ DOMAIN call[1].outcome.value.hourly[1] = {"datetime", "temperature"}
    /\ DOMAIN call[1].outcome.value.hourly[2] = {"datetime"}
    /\ Len(call[1].http.json.value.ranges["temperature-2m"].values) = 1

\* C15: the temperature of an entry is the upstream temperature-2m value
\* minus 273.15 (288.65 K gives 15.50), and the other five fields are the
\* upstream values unchanged; values are in hundredths.
C15_KelvinOnlyForTemperature ==
    ForecastAnswered =>
        LET body == call[1].http.json.value IN
        /\ call[1].outcome.ok
        /\ \A i \in 1..Len(call[1].outcome.value.hourly) : \A p \in RangeNames :
             UpstreamValue(body, p, i) # None =>
                LET entry == call[1].outcome.value.hourly[i]
                    v     == UpstreamValue(body, p, i)[1]
                IN  /\ FieldOf(p) \in DOMAIN entry
                    /\ entry[FieldOf(p)] = IF p = "temperature-2m" THEN v - 27315 ELSE v
                    /\ (p = "temperature-2m" /\ v = 28865) => entry[FieldOf(p)] = 1550

C15_Witness ==
    /\ ForecastAnswered
    /\ call[1].outcome.ok
    /\ Len(call[1].outcome.value.hourly) >= 1
    /\ "temperature" \in DOMAIN call[1].outcome.value.hourly[1]
    /\ call[1].outcome.value.hourly[1].temperature = 1550
    /\ call[1].http.json.value.ranges["temperature-2m"].values[1] = Some(28865)

(* ---------------------------- the config flow --------------------------- *)

FetchReturned == flow_fetched # None /\ flow_fetched[1].ok

FetchRaised == flow_fetched # None /\ ~flow_fetched[1].ok

FlowType(t) == flow_result # None /\ flow_result[1].type = t

BaseError(e) ==
    /\ FlowType("form")
    /\ "base" \in DOMAIN flow_result[1].errors
    /\ flow_result[1].errors["base"] = e

\* C17: when the station-list fetch succeeds with an empty list, the
\* station step shows the form with errors["base"] = "cannot_connect".
C17_Original ==
    (FetchReturned /\ Len(flow_fetched[1].value) = 0) => BaseError("cannot_connect")

\* a station step that was given user_input: the flow was showing its form
\* and the step's input is recorded
Submitted == InProgress /\ flow_input' # None

SubmittedUniqueId == << "dmi", flow_input'[1]["station_id"] >>

Configured(uid) == \E i \in 1..Len(entries) : entries[i].unique_id = uid

\* C18: no two entries share a unique id; a submission whose unique id
\* dmi_<station_id> is already configured ends in ABORT / already_configured
\* and leaves the entries alone, and any other submission appends exactly
\* one entry with that unique id.
C18_OneEntryPerStation ==
    /\ [](\A i, j \in 1..Len(entries) :
             entries[i].unique_id = entries[j].unique_id => i = j)
    /\ [][Submitted =>
            IF Configured(SubmittedUniqueId)
            THEN /\ flow_result'[1] = [type |-> "abort", reason |-> "already_configured"]
                 /\ entries' = entries
            ELSE /\ flow_result'[1].type = "create_entry"
                 /\ Len(entries') = Len(entries) + 1
                 /\ SubSeq(entries', 1, Len(entries)) = entries
                 /\ entries'[Len(entries')].unique_id = SubmittedUniqueId]_vars

C18_Witness ==
    /\ FlowType("abort")
    /\ flow_result[1].reason = "already_configured"
    /\ flow_input # None
    /\ Len(entries) = 2
    /\ entries[1].unique_id = << "dmi", flow_input[1]["station_id"] >>
    /\ entries[2].unique_id # entries[1].unique_id

\* the stations of the flow's list that carry the submitted id
Matching == { i \in 1..Len(flow_stations) : flow_stations[i].stationId = flow_input[1]["station_id"] }

FirstMatching == CHOOSE i \in Matching : \A j \in Matching : i <= j

\* C19: a created entry stores the submitted station id; with
\* use_coordinates true its coordinates are the host's, otherwise those of
\* the first station of the fetched list with the submitted id, absent when
\* that station has none or no station has the id.
C19_EntryCoordinates ==
    FlowType("create_entry") =>
        LET data == flow_result[1].data
            use  == IF "use_coordinates" \in DOMAIN flow_input[1]
                    THEN flow_input[1]["use_coordinates"] ELSE FALSE
        IN  /\ data.station_id = flow_input[1]["station_id"]
            /\ data.use_coordinates = use
            /\ entries[Len(entries)].data = data
            /\ IF use
               THEN data.latitude = << 56 >> /\ data.longitude = << 11 >>
               ELSE IF Matching = {}
                    THEN data.latitude = None /\ data.longitude = None
                    ELSE /\ data.latitude = flow_stations[FirstMatching].latitude
                         /\ data.longitude = flow_stations[FirstMatching].longitude

C19_Witness ==
    /\ FlowType("create_entry")
    /\ flow_result[1].data.use_coordinates
    /\ flow_result[1].data.latitude = << 56 >>
    /\ flow_result[1].data.longitude = << 11 >>
    /\ Matching # {}
    /\ flow_stations[FirstMatching].latitude = << 55 >>
    /\ Len(entries) = 2
    /\ ~entries[1].data.use_coordinates
    /\ entries[1].data.latitude = << 55 >>
    /\ entries[1].data.longitude = << 12 >>

\* C20: a station step whose fetch raised shows the form of step
\* "station" with base error "cannot_connect" for CannotConnect and
\* "unknown" for any other exception; it creates no entry and does not
\* abort.
C20_FetchFailureShowsForm ==
    /\ [](FetchRaised =>
            /\ FlowType("form")
            /\ flow_result[1].step_id = "station"
            /\ BaseError(IF flow_fetched[1].exc.cls = "CannotConnect"
                         THEN "cannot_connect" ELSE "unknown"))
    /\ [][(flow_fetched' # None /\ ~flow_fetched'[1].ok) => entries' = entries]_vars

C20_Witness ==
    /\ FetchRaised
    /\ flow_fetched[1].exc.cls = "RateLimitExceeded"
    /\ BaseError("unknown")
    /\ Len(entries) = 1

(* ----------------------------- the entities ----------------------------- *)

\* the value a Snapshot's observations carry for a parameter, None when the
\* Snapshot, the parameter or the value is absent
ObservedValue(d, key) ==
    IF d = None THEN None
    ELSE IF key \notin DOMAIN d[1].observations THEN None
    ELSE d[1].observations[key].value

\* the integer a value converts to: Some(n), or None when it converts to none
IntegerOf(v) ==
    CASE v.json = "int"                   -> Some(v.n)
      [] v.json = "float"                 -> Some(v.tenths \div 10)
      [] v.json = "str" /\ v.s = "2"      -> Some(2)
      [] v.json = "str" /\ v.s = "15"     -> Some(15)
      [] OTHER                            -> None

KnownConditions ==
    { "sunny", "partlycloudy", "cloudy", "fog", "rainy", "pouring", "snowy-rainy", "snowy",
      "lightning-rainy", "hail" }

\* the condition the cloud cover alone gives: "cloudy" unless the value is
\* a number below 60
FromCloudCover(v) ==
    IF v = None THEN "cloudy"
    ELSE IF IntegerOf(v[1]) = None THEN "cloudy"
    ELSE IF v[1].json = "float"
         THEN (IF v[1].tenths < 200 THEN "sunny"
               ELSE IF v[1].tenths < 600 THEN "partlycloudy" ELSE "cloudy")
    ELSE IF IntegerOf(v[1])[1] < 20 THEN "sunny"
    ELSE IF IntegerOf(v[1])[1] < 60 THEN "partlycloudy"
    ELSE "cloudy"

\* C21: the condition is always a known condition string: the
\* CONDITION_MAP entry of the weather code when the weather value converts
\* to an integer ("cloudy" for an unmapped code), otherwise the cloud-cover
\* estimate, otherwise "cloudy", also without a Snapshot or with an
\* invalid weather code.
C21_Original ==
    Called("condition") =>
        LET w == ObservedValue(call[1].data, "weather")
            c == ObservedValue(call[1].data, "cloud_cover")
        IN  /\ call[1].outcome.ok
            /\ call[1].outcome.value \in KnownConditions
            /\ call[1].outcome.value =
                 IF w # None /\ IntegerOf(w[1]) # None
                 THEN (IF IntegerOf(w[1])[1] \in DOMAIN CONDITION_MAP
                       THEN CONDITION_MAP[IntegerOf(w[1])[1]] ELSE "cloudy")
                 ELSE FromCloudCover(c)

\* the Forecast Entry fields the weather entity projects, with the key each
\* gets in a forecast item
Projected ==
    { << "temperature", "native_temperature" >>, << "wind_speed", "native_wind_speed" >>,
      << "wind_dir", "wind_bearing" >>, << "humidity", "humidity" >>,
      << "precipitation", "native_precipitation" >> }

\* C22: the hourly forecast is None without a Snapshot, without a forecast
\* in the Snapshot or with an empty hourly list; otherwise it has one item
\* per hourly entry, in order, with a projected field exactly when the
\* entry has the source field and a condition exactly when the entry has
\* cloud_cover (sunny below 20, partlycloudy below 60, else cloudy).
C22_HourlyForecast ==
    Called("async_forecast_hourly") =>
        LET d   == call[1].data
            out == call[1].outcome.value
        IN  IF d = None THEN out = None
            ELSE IF d[1].forecast = None THEN out = None
            ELSE IF Len(d[1].forecast[1].hourly) = 0 THEN out = None
            ELSE LET hourly == d[1].forecast[1].hourly IN
                 /\ out # None
                 /\ Len(out[1]) = Len(hourly)
                 /\ \A i \in 1..Len(hourly) :
                      LET entry == hourly[i]
                          item  == out[1][i]
                      IN  /\ item["datetime"] = entry["datetime"]
                          /\ DOMAIN item =
                               {"datetime"}
                               \cup { pr[2] : pr \in { q \in Projected : q[1] \in DOMAIN entry } }
                               \cup (IF "cloud_cover" \in DOMAIN entry
                                     THEN {"condition"} ELSE {})
                          /\ \A pr \in Projected :
                               pr[1] \in DOMAIN entry => item[pr[2]] = entry[pr[1]]
                          /\ "cloud_cover" \in DOMAIN entry =>
                               item["condition"] =
                                 IF entry["cloud_cover"] <= 19 THEN "sunny"
                                 ELSE IF entry["cloud_cover"] <= 59 THEN "partlycloudy"
                                 ELSE "cloudy"

C22_Witness ==
    /\ Called("async_forecast_hourly")
    /\ call[1].outcome.value # None
    /\ Len(call[1].outcome.value[1]) = 2
    /\ DOMAIN call[1].outcome.value[1][1] = {"datetime", "condition"}
    /\ call[1].outcome.value[1][1]["condition"] = "partlycloudy"
    /\ call[1].data[1].forecast[1].hourly[1]["cloud_cover"] = 20
    /\ DOMAIN call[1].outcome.value[1][2] = {"datetime", "native_temperature"}

(* ------------------------- a cycle's requests -------------------------- *)

ObsInFlight == pc \in Fetching /\ n_obs_requests > 0 /\ obs_await = None

FcInFlight == pc \in Fetching /\ n_fc_requests > 0 /\ fc_await = None

\* C23: the forecast request of a cycle is issued in the step in which its
\* observation fetch returns successfully, never before; the two requests
\* are never in flight together, and a cycle whose observation fetch raised
\* issues no forecast request.
C23_FetchesSequential ==
    /\ [][n_fc_requests' > n_fc_requests =>
            /\ pc = "FetchingObservations"
            /\ obs_await = None
            /\ obs_await' # None
            /\ obs_await'[1].ok]_vars
    /\ [](~(ObsInFlight /\ FcInFlight))
    /\ [](n_fc_requests > 0 => (pc = "Idle" \/ ObsReturned))
    /\ []((obs_await # None /\ ~obs_await[1].ok) => (n_fc_requests = 0 /\ fc_await = None))

C23_Witness ==
    /\ pc = "FetchingForecast"
    /\ ObsReturned
    /\ FcInFlight
    /\ ~ObsInFlight
    /\ n_fc_requests = 1
    /\ now > 0

C25_SnapshotFromOwnCycle ==
    /\ []((pc = "Succeeded") =>
            /\ IsSnapshot
            /\ ObsReturned
            /\ DOMAIN result[1].value.observations = DOMAIN obs_await[1].value
            /\ result[1].value.observations = obs_await[1].value
            /\ result[1].value.forecast =
                 IF fc_await # None /\ fc_await[1].ok THEN << fc_await[1].value >> ELSE << >>)
    /\ [][(pc = "Idle" /\ pc' # "Idle") =>
            (result' = << >> /\ obs_await' = << >> /\ fc_await' = << >>)]_vars

C25_Witness ==
    /\ pc = "Succeeded"
    /\ IsSnapshot
    /\ fc_await # None
    /\ fc_await[1].ok
    /\ result[1].value.forecast = << fc_await[1].value >>
    /\ Len(fc_await[1].value.hourly) = 1
    /\ result[1].value.observations = EmptyDict
    /\ now = 1

\* C26: a cycle that has ended leaves the coordinator Idle, whatever its
\* outcome; from Idle a cycle can be started again, after a failure as
\* after a success, and it starts afresh; how a cycle ends is decided by
\* its own fetches and its own timeout alone.
C26_BackToIdle ==
    /\ [][(pc \in Terminal) => (pc' = "Idle")]_vars
    /\ []((pc = "Idle" /\ now + 30 <= MaxNow) => ENABLED StartCycle)
    /\ [][(pc = "Idle" /\ pc' # "Idle") =>
            (pc' = "FetchingObservations" /\ ~timed_out' /\ result' = << >>)]_vars
    /\ []((pc = "Succeeded") => (~timed_out /\ ObsReturned /\ IsSnapshot))
    /\ []((pc = "Failed") =>
            /\ result # None
            /\ ~result[1].ok
            /\ timed_out \/ (obs_await # None /\ ~obs_await[1].ok))

C26_Witness ==
    /\ pc = "Idle"
    /\ result # None
    /\ ~result[1].ok
    /\ now + 30 <= MaxNow
    /\ ENABLED StartCycle

\* C27: no step of a cycle, successful or failed, changes the station id,
\* the coordinates, the forecast flag or the interval; the interval is the
\* update_interval option in minutes, 10 minutes when unset, and the
\* forecast flag is the include_forecast option, true when unset.
C27_ConfigurationFixed ==
    /\ [][UNCHANGED << station_id, latitude, longitude, include_forecast,
                       update_interval >>]_vars
    /\ [](update_interval = IF "update_interval" \in DOMAIN entry_options
                            THEN 60 * entry_options["update_interval"] ELSE 60 * 10)
    /\ [](include_forecast = IF "include_forecast" \in DOMAIN entry_options
                             THEN entry_options["include_forecast"] ELSE TRUE)

C27_Witness ==
    /\ pc = "Failed"
    /\ timed_out
    /\ n_fc_requests = 1
    /\ entry_options = EmptyDict
    /\ include_forecast
    /\ update_interval = 600
    /\ station_id = "06180"
    /\ latitude = << 55 >>
    /\ longitude = << 12 >>

\* the parameterId of an upstream observation feature, None when absent
UpstreamParameterId(f) == Get(Get(f, "properties", EmptyDict), "parameterId", None)

\* the places of the feed that report parameter p
PlacesOf(features, p) ==
    { i \in 1..Len(features) : UpstreamParameterId(features[i]) = << p >> }

ReportedParams ==
    IF coordinator_data = None THEN {} ELSE DOMAIN coordinator_data[1].observations

SensorTypeKeys == { SENSOR_TYPES[i] : i \in 1..Len(SENSOR_TYPES) }

\* C29: the sensors are decided by the one platform setup: one sensor for
\* each SENSOR_TYPES key among the observations of the Snapshot read at
\* that moment, none without a Snapshot, and no later Snapshot adds or
\* removes a sensor.
C29_SensorsDecidedAtSetup ==
    /\ [][(sensors = << >> /\ sensors' # << >>) =>
            /\ { sensors'[1][i] : i \in 1..Len(sensors'[1]) } = SensorTypeKeys \cap ReportedParams
            /\ Len(sensors'[1]) = Cardinality(SensorTypeKeys \cap ReportedParams)]_vars
    /\ [][(sensors # << >>) => (sensors' = sensors)]_vars

C29_Witness ==
    /\ sensors = << << "temp_dry" >> >>
    /\ ReportedParams = { "weather", "cloud_cover" }

(* -------------------------- overlapping cycles -------------------------- *)

\* C30: however two calls interleave, the Snapshot a call returns holds
\* the observations its own get_observations returned and the forecast
\* its own get_forecast returned (None when it asked for none or the fetch
\* raised), never what the other call fetched.
C30_SnapshotOfOwnInvocation ==
    \A i \in Invocations :
        invocations[i].pc = "Succeeded" =>
            LET inv == invocations[i] IN
            /\ inv.result # << >>
            /\ inv.result[1].ok
            /\ inv.fetched_obs # << >>
            /\ inv.fetched_obs[1].ok
            /\ inv.result[1].value.observations = inv.fetched_obs[1].value
            /\ inv.result[1].value.forecast =
                 IF inv.fetched_fc # << >> /\ inv.fetched_fc[1].ok
                 THEN << inv.fetched_fc[1].value >> ELSE << >>

C30_Witness ==
    /\ invocations[1].pc = "Succeeded"
    /\ invocations[2].pc = "FetchingForecast"
    /\ invocations[1].fetched_fc # << >>
    /\ invocations[1].fetched_fc[1].ok
    /\ invocations[1].result[1].value.forecast # << >>
    /\ invocations[1].result[1].value.observations # EmptyDict
    /\ invocations[2].fetched_obs[1].value # invocations[1].fetched_obs[1].value
    /\ frames[2].observations = << invocations[2].fetched_obs[1].value >>

====
